---- MODULE Spec2Model ----
(***************************************************************************)
(* VoiceStreamingService (server/services/voiceStreaming.ts): the registry *)
(* of voice sessions, the start and teardown of a session, the synthesis   *)
(* link (ElevenLabs WebSocket) and the handlers of the client's messages.  *)
(*                                                                         *)
(* The service runs on one JavaScript event loop: a handler runs without   *)
(* interruption until it returns or reaches an await on an external call.  *)
(* One action below is one such uninterrupted run.  initializeVoiceSession *)
(* awaits only functions that never wait for I/O, so a whole call is one   *)
(* action.  A connection c is one call of initializeVoiceSession with its  *)
(* own client socket; the Session object the call creates is object c.     *)
(***************************************************************************)
EXTENDS Integers, Sequences, FiniteSets, TLC

\* ---- bounds of the model
MaxConn == 2
MaxMsgs == 2

Conns == 1..MaxConn

\* ---- inputs
\* sessionIds and conversationIds are opaque to the service: they are named in
\* the order the calls first use them, so call c takes one of the first c names.
SessionIds == <<"s1", "s2", "s3">>
ConversationIds == <<"c1", "c2", "c3">>
FirstOf(names, c) == {names[i] : i \in 1..(IF c < Len(names) THEN c ELSE Len(names))}
Personalities == {"Savantist", "Mystery"}
\* The instants (ms) at which Date.now() is read.
Instants == {0, 60000, 61000}

\* A string is a sequence of one-character strings; undefined is a value
\* apart from every string.
Undefined == <<"undefined">>
EmptyMap == [x \in {} |-> 0]

\* JavaScript truthiness of a string-or-undefined value (the operand of ||)
Falsy(x) == x = Undefined \/ x = <<>>

WhiteSpace == {" ", "\t", "\n"}
RECURSIVE TrimStart(_)
TrimStart(s) == IF s # <<>> /\ Head(s) \in WhiteSpace THEN TrimStart(Tail(s)) ELSE s
RECURSIVE TrimEnd(_)
TrimEnd(s) ==
  IF s # <<>> /\ s[Len(s)] \in WhiteSpace THEN TrimEnd(SubSeq(s, 1, Len(s) - 1)) ELSE s
\* trim left out: the string as it is
TrimNothing(s) == s
\* String.prototype.trim
Trim(s) == TrimEnd(TrimStart(s))

MapSet(m, k, v) == [x \in (DOMAIN m) \cup {k} |-> IF x = k THEN v ELSE m[x]]
MapDelete(m, k) == [x \in (DOMAIN m) \ {k} |-> m[x]]

\* `${sessionId}-voice-${Date.now()}`: the text after the last "-voice-" is
\* the decimal instant, so the string determines the pair and the pair the
\* string.
StreamSessionId(sessionId, t) == <<sessionId, t>>

\* Math.floor in the place of Math.ceil
DurationMinutesFloor(durationMs) == durationMs \div (60 * 1000)
\* Math.round in the place of Math.ceil
DurationMinutesRound(durationMs) == (durationMs + 30 * 1000) \div (60 * 1000)
\* Math.ceil(durationMs / (60 * 1000))
DurationMinutes(durationMs) == -((-durationMs) \div (60 * 1000))

\* voiceMap[personality] and prompts[personality] are property reads of an
\* object literal: a key the literal does not have is looked up in
\* Object.prototype, whose properties (functions, and the prototype itself
\* for __proto__) are truthy.
ObjectPrototypeKeys == {"constructor", "toString", "valueOf", "hasOwnProperty",
                        "__proto__"}
InheritedProperty(k) == "Object.prototype." \o k

getVoiceIdForPersonality(personality) ==
  LET voiceMap == [p \in {"AUtistic AI", "Level 1 ASD", "Savantist"} |->
                     CASE p = "AUtistic AI" -> "BRruTxiLM2nszrcCIpz1"
                       [] p = "Level 1 ASD" -> "g2W4HAjKvdW93AmsjsOx"
                       [] p = "Savantist" -> "WAixHs5LYSwPVDJxQgN7"]
  IN IF personality \in DOMAIN voiceMap THEN voiceMap[personality]
     ELSE IF personality \in ObjectPrototypeKeys THEN InheritedProperty(personality)
     ELSE voiceMap["AUtistic AI"]

getPersonalitySystemPrompt(personality) ==
  LET prompts == [p \in {"AUtistic AI", "Level 1 ASD", "Savantist"} |->
                    CASE p = "AUtistic AI" -> "You are AUtistic AI, specialized in meme coins and creative content. Be casual, fun, and knowledgeable about crypto culture."
                      [] p = "Level 1 ASD" -> "You are Level 1 ASD, focused on learning, facts, and solving complex problems. Be analytical and educational."
                      [] p = "Savantist" -> "You are Savantist, the expert in advanced trading insights. Provide deep analysis with maximum detail and precision."]
  IN IF personality \in DOMAIN prompts THEN prompts[personality]
     ELSE IF personality \in ObjectPrototypeKeys THEN InheritedProperty(personality)
     ELSE prompts["AUtistic AI"]

VARIABLES
  now,            \* Date.now()
  phase,          \* per connection: "idle" (not called yet), "ready" (handlers
                  \* set up, client connected), "failed" (start failed),
                  \* "closed" (client disconnected)
  key,            \* per connection: the streamSessionId of its call
  sess,           \* per connection: the VoiceStreamingSession object it created
  link,           \* per Session object: its elevenLabsWs
  activeSessions, \* Map streamSessionId -> Session object
  sessionKeyMap,  \* Map sessionId -> streamSessionId
  inv,            \* per connection: its invocation of cleanupSession
  clientOut,      \* per connection: the calls of clientWs.send, in order
  quotaLog,       \* per Session object: the incrementVoiceMinutes calls made for it
  tasks,          \* per connection: the runs of its 'message' handler, in the
                  \* order the messages arrived, each with its position
  webhookLog,     \* per connection: the records written by createWebhookLog
  posts,          \* per connection: the payloads POSTed to the webhook
  audioCache,     \* per Session object: the records written by createAudioCache
  resolved        \* the calls of the two resolvers made directly, with their results

lifecycle == <<phase, key, sess, activeSessions, sessionKeyMap, inv, quotaLog>>
messaging == <<tasks, webhookLog, posts, audioCache, resolved>>
vars == <<now, phase, key, sess, link, activeSessions, sessionKeyMap, inv,
          clientOut, quotaLog, tasks, webhookLog, posts, audioCache, resolved>>

NoSession == [sessionId |-> "", conversationId |-> "", personality |-> "",
              hasWs |-> FALSE, isActive |-> FALSE, startTime |-> 0]
NoLink == [state |-> "absent", voiceId |-> "", closeCalls |-> 0,
           errored |-> FALSE, frames |-> <<>>, received |-> <<>>]
\* durationMs and quota ("ok" or "rejected", how incrementVoiceMinutes ended)
\* are kept for the record.
NoInv == [pc |-> "none", session |-> 0, minutes |-> 0, durationMs |-> 0,
          quota |-> "none"]

\* A message sent on clientWs; task is the handler run that sent it (0: none).
Out(type) == [type |-> type, text |-> Undefined, task |-> 0]
OutText(type, text, i) == [type |-> type, text |-> text, task |-> i]

Init ==
  /\ now = 0
  /\ phase = [c \in Conns |-> "idle"]
  /\ key = [c \in Conns |-> <<"", 0>>]
  /\ sess = [c \in Conns |-> NoSession]
  /\ link = [c \in Conns |-> NoLink]
  /\ activeSessions = EmptyMap
  /\ sessionKeyMap = EmptyMap
  /\ inv = [c \in Conns |-> NoInv]
  /\ clientOut = [c \in Conns |-> <<>>]
  /\ quotaLog = [c \in Conns |-> <<>>]
  /\ tasks = [c \in Conns |-> <<>>]
  /\ webhookLog = [c \in Conns |-> <<>>]
  /\ posts = [c \in Conns |-> <<>>]
  /\ audioCache = [c \in Conns |-> <<>>]
  /\ resolved = <<>>

\* Date.now() moves on to a later instant.
Tick ==
  /\ \E t \in Instants : t > now /\ now' = t
  /\ UNCHANGED <<phase, key, sess, link, activeSessions, sessionKeyMap, inv,
                 clientOut, quotaLog, messaging>>

\* The part of cleanupSession before its first await: the lookup, isActive :=
\* false and the duration, given the registry `reg` and the Session objects
\* `ss` it runs on.  The result is <<the invocation, the Session objects>>.
cleanupSessionEnter(streamSessionId, reg, ss) ==
  IF streamSessionId \in DOMAIN reg
  THEN LET s == reg[streamSessionId]
       IN <<[NoInv EXCEPT !.pc = "import", !.session = s,
                          !.minutes = DurationMinutes(now - ss[s].startTime),
                          !.durationMs = now - ss[s].startTime],
            [ss EXCEPT ![s].isActive = FALSE]>>
  ELSE <<[NoInv EXCEPT !.pc = "done"], ss>>

\* initializeVoiceSession(clientWs, sessionId, conversationId, personality).
\* outcome "ok": both adapters are set up; "wsThrows": new WebSocket(...)
\* throws; "geminiThrows": the try block of initializeGeminiLive throws before
\* voice_ready is sent.  Calls are numbered in the order they are made.
initializeVoiceSession(c, sessionId, conversationId, personality, outcome) ==
  LET streamSessionId == StreamSessionId(sessionId, now)
      voiceSession == [sessionId |-> sessionId,
                       conversationId |-> conversationId,
                       personality |-> personality,
                       hasWs |-> outcome # "wsThrows",
                       isActive |-> TRUE, startTime |-> now]
      reg == MapSet(activeSessions, streamSessionId, c)
      ss == [sess EXCEPT ![c] = voiceSession]
      entered == cleanupSessionEnter(streamSessionId, reg, ss)
  IN /\ phase[c] = "idle"
     /\ \A d \in Conns : d < c => phase[d] # "idle"
     /\ key' = [key EXCEPT ![c] = streamSessionId]
     /\ activeSessions' = reg
     /\ sessionKeyMap' = MapSet(sessionKeyMap, sessionId, streamSessionId)
     /\ link' = [link EXCEPT ![c] =
                   IF outcome = "wsThrows" THEN NoLink
                   ELSE [NoLink EXCEPT !.state = "connecting",
                           !.voiceId = getVoiceIdForPersonality(personality)]]
     /\ IF outcome = "ok"
        THEN /\ sess' = ss
             /\ clientOut' = [clientOut EXCEPT ![c] = Append(@, Out("voice_ready"))]
             /\ phase' = [phase EXCEPT ![c] = "ready"]
             /\ inv' = inv
        ELSE /\ sess' = entered[2]
             /\ clientOut' = [clientOut EXCEPT ![c] = Append(@, Out("error"))]
             /\ phase' = [phase EXCEPT ![c] = "failed"]
             /\ inv' = [inv EXCEPT ![c] = entered[1]]
     /\ UNCHANGED <<now, quotaLog, messaging>>

\* frames sent on elevenLabsWs; task is the handler run that sent the frame
\* (0: none), kept for the record.
BosFrame == [text |-> <<" ">>, init |-> TRUE, try_trigger_generation |-> FALSE,
             flush |-> FALSE, task |-> 0,
             voice_settings |-> [stability |-> "0.5", similarity_boost |-> "0.8",
                                 speed |-> "1.0"],
             chunk_length_schedule |-> <<120, 160, 250, 290>>,
             xi_api_key |-> "process.env.ELEVENLABS_API_KEY"]

\* elevenLabsWs.on('open') that leaves the configuration for later
elevenLabsOpenSilent(s) ==
  /\ link[s].state = "connecting"
  /\ link' = [link EXCEPT ![s].state = "open"]
  /\ UNCHANGED <<now, phase, key, sess, activeSessions, sessionKeyMap, inv,
                 clientOut, quotaLog, messaging>>

\* elevenLabsWs.on('open')
elevenLabsOpen(s) ==
  /\ link[s].state = "connecting"
  /\ link' = [link EXCEPT ![s].state = "open", ![s].frames = Append(@, BosFrame)]
  /\ UNCHANGED <<now, phase, key, sess, activeSessions, sessionKeyMap, inv,
                 clientOut, quotaLog, messaging>>

\* generateSecureToken() of utils/fingerprint, for the n-th message of link s:
\* a token that no other call produces.
generateSecureToken(s, n) == <<"token", s, n>>

\* The audio_output message for the n-th message received on the link (the
\* number is kept for the record).
OutAudio(n) == [type |-> "audio_output", text |-> Undefined, task |-> 0, fragment |-> n]

\* cacheAudioOutput(sessionId, conversationId, audio): the record it stores
CacheRecord(s, n) ==
  [sessionId |-> sess[s].sessionId, conversationId |-> sess[s].conversationId,
   secureToken |-> generateSecureToken(s, n), fragment |-> n]

\* elevenLabsMessage that stores every audio chunk, final or not
elevenLabsMessageCachesAll(s, cap, chunk, ok) ==
  LET n == Len(link[s].received) + 1
  IN /\ link[s].state = "open"
     /\ n <= cap
     /\ link' = [link EXCEPT ![s].received =
                   Append(@, [kind |-> chunk, stored |-> chunk # "none" /\ ok])]
     /\ clientOut' = IF chunk = "none" THEN clientOut
                     ELSE [clientOut EXCEPT ![s] = Append(@, OutAudio(n))]
     /\ audioCache' = IF chunk # "none" /\ ok
                      THEN [audioCache EXCEPT ![s] = Append(@, CacheRecord(s, n))]
                      ELSE audioCache
     /\ UNCHANGED <<now, lifecycle, resolved, tasks, webhookLog, posts>>

\* elevenLabsWs.on('message') with the reply `chunk` of the synthesis service:
\* "none" (no audio field), "audio" (an audio chunk) or "final" (an audio chunk
\* with isFinal, which cacheAudioOutput stores unless createAudioCache fails:
\* ok).  At most `cap` replies are taken; what was received, and whether it
\* was stored, is kept for the record.
elevenLabsMessage(s, cap, chunk, ok) ==
  LET n == Len(link[s].received) + 1
  IN /\ link[s].state = "open"
     /\ n <= cap
     /\ link' = [link EXCEPT ![s].received =
                   Append(@, [kind |-> chunk, stored |-> chunk = "final" /\ ok])]
     /\ clientOut' = IF chunk = "none" THEN clientOut
                     ELSE [clientOut EXCEPT ![s] = Append(@, OutAudio(n))]
     /\ audioCache' = IF chunk = "final" /\ ok
                      THEN [audioCache EXCEPT ![s] = Append(@, CacheRecord(s, n))]
                      ELSE audioCache
     /\ UNCHANGED <<now, lifecycle, resolved, tasks, webhookLog, posts>>

\* elevenLabsWs.on('error') that also ends the session: isActive := false
elevenLabsErrorEndsSession(s) ==
  /\ link[s].state \in {"connecting", "open"}
  /\ link' = [link EXCEPT ![s].state = "closed", ![s].errored = TRUE]
  /\ clientOut' = [clientOut EXCEPT ![s] = Append(@, Out("error"))]
  /\ sess' = [sess EXCEPT ![s].isActive = FALSE]
  /\ UNCHANGED <<now, phase, key, activeSessions, sessionKeyMap, inv,
                 quotaLog, messaging>>

\* elevenLabsWs.on('error'): the connection fails to establish, or breaks.
elevenLabsError(s) ==
  /\ link[s].state \in {"connecting", "open"}
  /\ link' = [link EXCEPT ![s].state = "closed", ![s].errored = TRUE]
  /\ clientOut' = [clientOut EXCEPT ![s] = Append(@, Out("error"))]
  /\ UNCHANGED <<now, phase, key, sess, activeSessions, sessionKeyMap, inv,
                 quotaLog, messaging>>

\* clientClose that tears down the Session of its own connection when the
\* key is no longer registered
clientCloseTearsDownOwn(c) ==
  LET entered ==
        IF key[c] \in DOMAIN activeSessions
        THEN cleanupSessionEnter(key[c], activeSessions, sess)
        ELSE <<[NoInv EXCEPT !.pc = "import", !.session = c,
                             !.minutes = DurationMinutes(now - sess[c].startTime),
                             !.durationMs = now - sess[c].startTime],
               [sess EXCEPT ![c].isActive = FALSE]>>
  IN /\ phase[c] = "ready"
     /\ phase' = [phase EXCEPT ![c] = "closed"]
     /\ inv' = [inv EXCEPT ![c] = entered[1]]
     /\ sess' = entered[2]
     /\ UNCHANGED <<now, key, link, activeSessions, sessionKeyMap, clientOut,
                    quotaLog, messaging>>

\* clientClose with the two deletes moved before the first await of
\* cleanupSession
clientCloseRemovesFirst(c) ==
  LET entered == cleanupSessionEnter(key[c], activeSessions, sess)
  IN /\ phase[c] = "ready"
     /\ phase' = [phase EXCEPT ![c] = "closed"]
     /\ inv' = [inv EXCEPT ![c] = entered[1]]
     /\ sess' = entered[2]
     /\ activeSessions' = MapDelete(activeSessions, key[c])
     /\ sessionKeyMap' = MapDelete(sessionKeyMap, sess[c].sessionId)
     /\ UNCHANGED <<now, key, link, clientOut, quotaLog, messaging>>

\* clientWs.on('close'): cleanupSession(streamSessionId) runs to its first await.
clientClose(c) ==
  LET entered == cleanupSessionEnter(key[c], activeSessions, sess)
  IN /\ phase[c] = "ready"
     /\ phase' = [phase EXCEPT ![c] = "closed"]
     /\ inv' = [inv EXCEPT ![c] = entered[1]]
     /\ sess' = entered[2]
     /\ UNCHANGED <<now, key, link, activeSessions, sessionKeyMap, clientOut,
                    quotaLog, messaging>>

\* cleanupSession after `await import('../utils/rateLimit')`: the call of
\* incrementVoiceMinutes(session.sessionId, durationMinutes).
cleanupSessionReport(c) ==
  /\ inv[c].pc = "import"
  /\ inv' = [inv EXCEPT ![c].pc = "quota"]
  /\ quotaLog' = [quotaLog EXCEPT ![inv[c].session] =
                    Append(@, [sessionId |-> sess[inv[c].session].sessionId,
                               minutes |-> inv[c].minutes,
                               durationMs |-> inv[c].durationMs])]
  /\ UNCHANGED <<now, phase, key, sess, link, activeSessions, sessionKeyMap,
                 clientOut, messaging>>

\* cleanupSessionFinish with the try/catch around the quota call left out: a
\* rejection leaves cleanupSession before the close and the deletes.
cleanupSessionFinishStopsOnReject(c, quotaOk) ==
  LET s == inv[c].session
  IN /\ inv[c].pc = "quota"
     /\ inv' = [inv EXCEPT ![c].pc = "done",
                           ![c].quota = IF quotaOk THEN "ok" ELSE "rejected"]
     /\ link' = IF sess[s].hasWs /\ quotaOk
                THEN [link EXCEPT ![s].state = "closed",
                                  ![s].closeCalls = @ + 1]
                ELSE link
     /\ activeSessions' = IF quotaOk THEN MapDelete(activeSessions, key[c])
                          ELSE activeSessions
     /\ sessionKeyMap' = IF quotaOk THEN MapDelete(sessionKeyMap, sess[s].sessionId)
                         ELSE sessionKeyMap
     /\ UNCHANGED <<now, phase, key, sess, clientOut, quotaLog, messaging>>

\* cleanupSession after incrementVoiceMinutes returned or failed (a failure is
\* logged): close the link, delete both entries.
cleanupSessionFinish(c, quotaOk) ==
  LET s == inv[c].session
  IN /\ inv[c].pc = "quota"
     /\ inv' = [inv EXCEPT ![c].pc = "done",
                           ![c].quota = IF quotaOk THEN "ok" ELSE "rejected"]
     /\ link' = IF sess[s].hasWs
                THEN [link EXCEPT ![s].state = "closed",
                                  ![s].closeCalls = @ + 1]
                ELSE link
     /\ activeSessions' = MapDelete(activeSessions, key[c])
     /\ sessionKeyMap' = MapDelete(sessionKeyMap, sess[s].sessionId)
     /\ UNCHANGED <<now, phase, key, sess, clientOut, quotaLog, messaging>>

\* ---- the client's messages

\* frames sent by processTextInput and handleStopSpeaking
\* the text frame without the request to start generating
TextFrameNoTrigger(text, i) ==
  [text |-> text, init |-> FALSE, try_trigger_generation |-> FALSE,
   flush |-> FALSE, task |-> i]
TextFrame(text, i) == [text |-> text, init |-> FALSE, try_trigger_generation |-> TRUE,
                       flush |-> FALSE, task |-> i]
FlushFrame(i) == [text |-> <<>>, init |-> FALSE, try_trigger_generation |-> FALSE,
                  flush |-> TRUE, task |-> i]

\* the test of the link without the readyState part
wsReadyAnyState(s) == sess[s].hasWs

\* !voiceSession.elevenLabsWs || readyState !== WebSocket.OPEN, negated
wsReady(s) == sess[s].hasWs /\ link[s].state = "open"

\* processTextInput that finds the session in the registry by its key instead
\* of using the object it was given
processTextInputByKey(text, s, i) ==
  LET r == IF key[s] \in DOMAIN activeSessions THEN activeSessions[key[s]] ELSE s
  IN IF wsReady(r) THEN [link EXCEPT ![r].frames = Append(@, TextFrame(text, i))]
     ELSE link

\* processTextInput(text, voiceSession): the link after the call
processTextInput(text, s, i) ==
  IF wsReady(s) THEN [link EXCEPT ![s].frames = Append(@, TextFrame(text, i))]
  ELSE link

\* handleStopSpeaking that ends the stream: the flush frame, then close()
handleStopSpeakingCloses(s, i) ==
  IF wsReady(s) THEN [link EXCEPT ![s].frames = Append(@, FlushFrame(i)),
                                  ![s].state = "closed", ![s].closeCalls = @ + 1]
  ELSE link

\* handleStopSpeaking(voiceSession): the link after the call
handleStopSpeaking(s, i) ==
  IF wsReady(s) THEN [link EXCEPT ![s].frames = Append(@, FlushFrame(i))]
  ELSE link

\* response.data of the webhook: its response and text fields
NoData == [response |-> Undefined, text |-> Undefined]
\* the two fields of the reply tried in the other order
responseTextPrefersText(data, routed) ==
  IF ~Falsy(data.text) THEN data.text
  ELSE IF ~Falsy(data.response) THEN data.response
  ELSE routed
\* webhookResponse?.response || webhookResponse?.text || <the routed text>
responseText(data, routed) ==
  IF ~Falsy(data.response) THEN data.response
  ELSE IF ~Falsy(data.text) THEN data.text
  ELSE routed

\* A handler run.  Kept for the record: heard (what generateContent answered:
\* its text, Threw, or Pending before it answers) and errWrite (how the write
\* of the error record ended: "none", "ok" or "failed").
Pending == <<"pending">>
Threw == <<"threw">>
NewTask(kind, pc, text) ==
  [kind |-> kind, pc |-> pc, text |-> text, data |-> NoData, postOk |-> FALSE,
   heard |-> Pending, errWrite |-> "none"]

\* clientMessage with a default case that answers the client with an error
clientMessageDefaultAnswers(c, cap, kind, text) ==
  /\ phase[c] = "ready"
  /\ Len(tasks[c]) < cap
  /\ LET i == Len(tasks[c]) + 1
     IN CASE kind = "audio_input" ->
               \* processAudioInput: acknowledge, then await transcribeAudio
               /\ clientOut' = [clientOut EXCEPT ![c] =
                                  Append(@, OutText("audio_processing", Undefined, i))]
               /\ tasks' = [tasks EXCEPT ![c] =
                              Append(@, NewTask(kind, "transcribe", Undefined))]
               /\ link' = link
          [] kind = "text_input" ->
               \* routeToN8NWebhook(message.text, ...): await storage.getSession
               /\ tasks' = [tasks EXCEPT ![c] = Append(@, NewTask(kind, "lookup", text))]
               /\ UNCHANGED <<clientOut, link>>
          [] kind = "stop" ->
               /\ link' = handleStopSpeaking(c, i)
               /\ tasks' = [tasks EXCEPT ![c] = Append(@, NewTask(kind, "done", Undefined))]
               /\ clientOut' = clientOut
          [] OTHER ->
               /\ tasks' = [tasks EXCEPT ![c] = Append(@, NewTask(kind, "done", Undefined))]
               /\ clientOut' = [clientOut EXCEPT ![c] =
                                  Append(@, OutText("error", Undefined, i))]
               /\ link' = link
  /\ UNCHANGED <<now, lifecycle, audioCache, resolved, webhookLog, posts>>

\* clientWs.on('message'), to the first await of the handler.  A handler is
\* registered by setupClientHandlers and the client is still connected.
clientMessage(c, cap, kind, text) ==
  /\ phase[c] = "ready"
  /\ Len(tasks[c]) < cap
  /\ LET i == Len(tasks[c]) + 1
     IN CASE kind = "audio_input" ->
               \* processAudioInput: acknowledge, then await transcribeAudio
               /\ clientOut' = [clientOut EXCEPT ![c] =
                                  Append(@, OutText("audio_processing", Undefined, i))]
               /\ tasks' = [tasks EXCEPT ![c] =
                              Append(@, NewTask(kind, "transcribe", Undefined))]
               /\ link' = link
          [] kind = "text_input" ->
               \* routeToN8NWebhook(message.text, ...): await storage.getSession
               /\ tasks' = [tasks EXCEPT ![c] = Append(@, NewTask(kind, "lookup", text))]
               /\ UNCHANGED <<clientOut, link>>
          [] kind = "stop" ->
               /\ link' = handleStopSpeaking(c, i)
               /\ tasks' = [tasks EXCEPT ![c] = Append(@, NewTask(kind, "done", Undefined))]
               /\ clientOut' = clientOut
          [] OTHER ->
               \* console.warn
               /\ tasks' = [tasks EXCEPT ![c] = Append(@, NewTask(kind, "done", Undefined))]
               /\ UNCHANGED <<clientOut, link>>
  /\ UNCHANGED <<now, lifecycle, audioCache, resolved, webhookLog, posts>>

\* What the run i of connection c does when routeToN8NWebhook throws: the
\* catch of processAudioInput reports it, the catch of the 'message' handler
\* (the text_input case) only logs it.
routeThrows(c, i, ok) ==
  /\ tasks' = [tasks EXCEPT ![c][i].pc = "failed",
                            ![c][i].errWrite = IF ok THEN "ok" ELSE "failed"]
  /\ clientOut' = IF tasks[c][i].kind = "audio_input"
                  THEN [clientOut EXCEPT ![c] = Append(@, OutText("error", Undefined, i))]
                  ELSE clientOut

\* transcribeAudioReturn without the transcript sent back to the client
transcribeAudioReturnSilent(c, i, throws, text) ==
  /\ i \in DOMAIN tasks[c]
  /\ tasks[c][i].pc = "transcribe"
  /\ LET transcription == IF text = Undefined THEN Undefined ELSE Trim(text)
         failed == throws \/ Falsy(transcription)
         answer == IF throws THEN Threw ELSE text
     IN IF failed
        THEN \* transcribeAudio throws 'Failed to transcribe audio'
             /\ tasks' = [tasks EXCEPT ![c][i].pc = "failed", ![c][i].heard = answer]
             /\ clientOut' = [clientOut EXCEPT ![c] =
                                Append(@, OutText("error", Undefined, i))]
        ELSE IF Falsy(transcription) \/ Len(Trim(transcription)) = 0
        THEN \* No speech detected
             /\ tasks' = [tasks EXCEPT ![c][i].pc = "done", ![c][i].heard = answer]
             /\ clientOut' = clientOut
        ELSE /\ clientOut' = clientOut
             /\ tasks' = [tasks EXCEPT ![c][i].pc = "lookup",
                                       ![c][i].text = transcription,
                                       ![c][i].heard = answer]
  /\ UNCHANGED <<now, lifecycle, audioCache, resolved, link, webhookLog, posts>>

\* generateContent returns `text` (a string or undefined) or throws.
transcribeAudioReturn(c, i, throws, text) ==
  /\ i \in DOMAIN tasks[c]
  /\ tasks[c][i].pc = "transcribe"
  /\ LET transcription == IF text = Undefined THEN Undefined ELSE Trim(text)
         failed == throws \/ Falsy(transcription)
         answer == IF throws THEN Threw ELSE text
     IN IF failed
        THEN \* transcribeAudio throws 'Failed to transcribe audio'
             /\ tasks' = [tasks EXCEPT ![c][i].pc = "failed", ![c][i].heard = answer]
             /\ clientOut' = [clientOut EXCEPT ![c] =
                                Append(@, OutText("error", Undefined, i))]
        ELSE IF Falsy(transcription) \/ Len(Trim(transcription)) = 0
        THEN \* No speech detected
             /\ tasks' = [tasks EXCEPT ![c][i].pc = "done", ![c][i].heard = answer]
             /\ clientOut' = clientOut
        ELSE /\ clientOut' = [clientOut EXCEPT ![c] =
                                Append(@, OutText("transcript", transcription, i))]
             /\ tasks' = [tasks EXCEPT ![c][i].pc = "lookup",
                                       ![c][i].text = transcription,
                                       ![c][i].heard = answer]
  /\ UNCHANGED <<now, lifecycle, audioCache, resolved, link, webhookLog, posts>>

\* task, here and in WebhookLogRecord: the handler run, kept for the record
\* the payload with the personality of the latest call of initializeVoiceSession
\* (one personality field shared by the sessions) in the place of the session's
WebhookPayloadSharedPersonality(s, text, i) ==
  LET latest == CHOOSE c \in Conns : phase[c] # "idle" /\ \A d \in Conns : d > c => phase[d] = "idle"
  IN [personality |-> sess[latest].personality, modality |-> "VOICE",
      sessionId |-> sess[s].sessionId, conversationId |-> sess[s].conversationId,
      content |-> text, task |-> i]

WebhookPayload(s, text, i) ==
  [personality |-> sess[s].personality, modality |-> "VOICE",
   sessionId |-> sess[s].sessionId, conversationId |-> sess[s].conversationId,
   content |-> text, task |-> i]

\* the audit record with the two ids in each other's place
WebhookLogRecordIdsSwapped(s, text, status, i) ==
  [sessionId |-> sess[s].conversationId, conversationId |-> sess[s].sessionId,
   requestData |-> [personality |-> sess[s].personality, modality |-> "VOICE",
                    content |-> text],
   status |-> status, task |-> i]

WebhookLogRecord(s, text, status, i) ==
  [sessionId |-> sess[s].sessionId, conversationId |-> sess[s].conversationId,
   requestData |-> [personality |-> sess[s].personality, modality |-> "VOICE",
                    content |-> text],
   status |-> status, task |-> i]

\* routeToN8NWebhook after `await storage.getSession(...)`: the POST is sent,
\* or the lookup failed and the catch writes the error record.
getSessionReturn(c, i, ok) ==
  /\ i \in DOMAIN tasks[c]
  /\ tasks[c][i].pc = "lookup"
  /\ IF ok
     THEN /\ posts' = [posts EXCEPT ![c] = Append(@, WebhookPayload(c, tasks[c][i].text, i))]
          /\ tasks' = [tasks EXCEPT ![c][i].pc = "post"]
     ELSE /\ tasks' = [tasks EXCEPT ![c][i].pc = "errlog"]
          /\ posts' = posts
  /\ UNCHANGED <<now, lifecycle, audioCache, resolved, link, clientOut, webhookLog>>

\* routeToN8NWebhook after `await axios.post(...)`
axiosPostReturn(c, i, ok, data) ==
  /\ i \in DOMAIN tasks[c]
  /\ tasks[c][i].pc = "post"
  /\ tasks' = IF ok
              THEN [tasks EXCEPT ![c][i].pc = "log", ![c][i].data = data,
                                 ![c][i].postOk = TRUE]
              ELSE [tasks EXCEPT ![c][i].pc = "errlog"]
  /\ UNCHANGED <<now, lifecycle, audioCache, resolved, link, clientOut, webhookLog, posts>>

\* createWebhookLogReturn with a write that rejects after it stored the record:
\* the catch then writes the error record next to it.
createWebhookLogReturnKeepsRecord(c, i, ok) ==
  /\ i \in DOMAIN tasks[c]
  /\ tasks[c][i].pc = "log"
  /\ webhookLog' = [webhookLog EXCEPT ![c] =
                      Append(@, WebhookLogRecord(c, tasks[c][i].text, "success", i))]
  /\ IF ok
     THEN LET t == tasks[c][i]
              reply == responseText(t.data, t.text)
          IN /\ clientOut' = IF t.kind = "audio_input"
                             THEN [clientOut EXCEPT ![c] =
                                     Append(@, OutText("ai_response", reply, i))]
                             ELSE clientOut
             /\ link' = processTextInput(reply, c, i)
             /\ tasks' = [tasks EXCEPT ![c][i].pc = "done"]
     ELSE /\ tasks' = [tasks EXCEPT ![c][i].pc = "errlog"]
          /\ UNCHANGED <<clientOut, link>>
  /\ UNCHANGED <<now, lifecycle, audioCache, resolved, posts>>

\* routeToN8NWebhook after `await storage.createWebhookLog({... 'success'})`:
\* it returns response.data and the handler goes on to the end; a failed write
\* lands in the catch, which writes the error record.
createWebhookLogReturn(c, i, ok) ==
  /\ i \in DOMAIN tasks[c]
  /\ tasks[c][i].pc = "log"
  /\ IF ok
     THEN LET t == tasks[c][i]
              reply == responseText(t.data, t.text)
          IN /\ webhookLog' = [webhookLog EXCEPT ![c] =
                                 Append(@, WebhookLogRecord(c, t.text, "success", i))]
             /\ clientOut' = IF t.kind = "audio_input"
                             THEN [clientOut EXCEPT ![c] =
                                     Append(@, OutText("ai_response", reply, i))]
                             ELSE clientOut
             /\ link' = processTextInput(reply, c, i)
             /\ tasks' = [tasks EXCEPT ![c][i].pc = "done"]
     ELSE /\ tasks' = [tasks EXCEPT ![c][i].pc = "errlog"]
          /\ UNCHANGED <<webhookLog, clientOut, link>>
  /\ UNCHANGED <<now, lifecycle, audioCache, resolved, posts>>

\* createWebhookLogErrorReturn with a teardown slipped into the failure path:
\* the rethrown error also closes the session's link.
createWebhookLogErrorReturnClosesLink(c, i, ok) ==
  /\ i \in DOMAIN tasks[c]
  /\ tasks[c][i].pc = "errlog"
  /\ webhookLog' = IF ok
                   THEN [webhookLog EXCEPT ![c] =
                           Append(@, WebhookLogRecord(c, tasks[c][i].text, "error", i))]
                   ELSE webhookLog
  /\ routeThrows(c, i, ok)
  /\ link' = IF sess[c].hasWs
             THEN [link EXCEPT ![c].state = "closed", ![c].closeCalls = @ + 1]
             ELSE link
  /\ UNCHANGED <<now, lifecycle, audioCache, resolved, posts>>

\* createWebhookLogErrorReturn with a catch that does not rethrow: the call
\* returns and the handler goes on as after a reply without data.
createWebhookLogErrorReturnSwallows(c, i, ok) ==
  /\ i \in DOMAIN tasks[c]
  /\ tasks[c][i].pc = "errlog"
  /\ webhookLog' = IF ok
                   THEN [webhookLog EXCEPT ![c] =
                           Append(@, WebhookLogRecord(c, tasks[c][i].text, "error", i))]
                   ELSE webhookLog
  /\ tasks' = [tasks EXCEPT ![c][i].pc = "done",
                            ![c][i].errWrite = IF ok THEN "ok" ELSE "failed"]
  /\ UNCHANGED <<now, lifecycle, audioCache, resolved, link, clientOut, posts>>

\* routeToN8NWebhook after `await storage.createWebhookLog({... 'error'})` in
\* the catch: the error is rethrown (or the failed write throws).
createWebhookLogErrorReturn(c, i, ok) ==
  /\ i \in DOMAIN tasks[c]
  /\ tasks[c][i].pc = "errlog"
  /\ webhookLog' = IF ok
                   THEN [webhookLog EXCEPT ![c] =
                           Append(@, WebhookLogRecord(c, tasks[c][i].text, "error", i))]
                   ELSE webhookLog
  /\ routeThrows(c, i, ok)
  /\ UNCHANGED <<now, lifecycle, audioCache, resolved, link, posts>>

\* The runs of the 'message' handler of connection c that have not ended.
InFlight(c) == {i \in DOMAIN tasks[c] : tasks[c][i].pc \notin {"done", "failed"}}

\* ---- inputs of the handlers
MessageKinds == {"audio_input", "text_input", "stop", "ping"}
TypedTexts == {<<"H", "i">>}
ProviderTexts == {Undefined, <<>>, <<" ">>, <<" ", "y", "o", " ">>}
ReplyDatas == {NoData,
               [response |-> <<"o", "k">>, text |-> <<"t">>],
               [response |-> <<>>, text |-> <<"t">>],
               [response |-> <<>>, text |-> <<>>]}

MessageStep(c, cap) ==
  \/ \E kind \in MessageKinds, text \in TypedTexts : clientMessage(c, cap, kind, text)
  \/ \E i \in 1..cap, throws \in BOOLEAN, text \in ProviderTexts :
       transcribeAudioReturn(c, i, throws, text)
  \/ \E i \in 1..cap, ok \in BOOLEAN : getSessionReturn(c, i, ok)
  \/ \E i \in 1..cap, ok \in BOOLEAN, data \in ReplyDatas : axiosPostReturn(c, i, ok, data)
  \/ \E i \in 1..cap, ok \in BOOLEAN : createWebhookLogReturn(c, i, ok)
  \/ \E i \in 1..cap, ok \in BOOLEAN : createWebhookLogErrorReturn(c, i, ok)

Step(c) ==
  \/ \E sid \in FirstOf(SessionIds, c), cv \in FirstOf(ConversationIds, c),
        p \in Personalities,
        o \in {"ok", "wsThrows", "geminiThrows"} :
       initializeVoiceSession(c, sid, cv, p, o)
  \/ elevenLabsOpen(c)
  \/ elevenLabsError(c)
  \/ clientClose(c)
  \/ cleanupSessionReport(c)
  \/ \E ok \in BOOLEAN : cleanupSessionFinish(c, ok)

\* Two connections, their starts and teardowns.
Next == Tick \/ \E c \in Conns : Step(c)

Spec == Init /\ [][Next]_vars

\* One connection at one instant: its start, its messages and its teardown.
NextMsg == Step(1) \/ MessageStep(1, MaxMsgs)

SpecMsg == Init /\ [][NextMsg]_vars

\* Two connections at one instant, the first with the first personality: their
\* starts, one typed or spoken message each with its Router call, one reply of
\* the synthesis service after the message was handled, and their teardowns.
MaxPairMsgs == 1
MaxChunks == 1
PersonalitySeq == <<"Savantist", "Mystery">>
PairStep(c) ==
  \/ \E sid \in FirstOf(SessionIds, c), p \in FirstOf(PersonalitySeq, c),
        o \in {"ok", "wsThrows", "geminiThrows"} :
       initializeVoiceSession(c, sid, ConversationIds[c], p, o)
  \/ elevenLabsOpen(c)
  \/ /\ InFlight(c) = {} /\ tasks[c] # <<>>
     /\ \E chunk \in {"audio", "final"} : elevenLabsMessage(c, MaxChunks, chunk, TRUE)
  \/ clientClose(c)
  \/ cleanupSessionReport(c)
  \/ cleanupSessionFinish(c, TRUE)

PairMessageStep(c) ==
  \/ \E kind \in {"audio_input", "text_input", "stop"}, text \in TypedTexts :
       clientMessage(c, MaxPairMsgs, kind, text)
  \/ transcribeAudioReturn(c, 1, FALSE, <<" ", "y", "o", " ">>)
  \/ \E ok \in BOOLEAN : getSessionReturn(c, 1, ok)
  \/ axiosPostReturn(c, 1, TRUE, NoData)
  \/ createWebhookLogReturn(c, 1, TRUE)
  \/ createWebhookLogErrorReturn(c, 1, TRUE)

NextPair == \E c \in Conns : PairStep(c) \/ PairMessageStep(c)

SpecPair == Init /\ [][NextPair]_vars

\* One connection at one instant and the replies of the synthesis service
\* on its link, with no message of the client.
MaxFragments == 2
NextAudio ==
  \/ Step(1)
  \/ \E chunk \in {"none", "audio", "final"}, ok \in BOOLEAN :
       elevenLabsMessage(1, MaxFragments, chunk, ok)

SpecAudio == Init /\ [][NextAudio]_vars

\* The two resolvers called on their own, on personalities that are
\* configured, not configured, empty, or names of Object.prototype.
MaxResolves == 2
AnyPersonalities == {"AUtistic AI", "Level 1 ASD", "Savantist", "Mystery", "",
                     "constructor", "toString", "__proto__"}
resolveVoice(personality) ==
  /\ Len(resolved) < MaxResolves
  /\ resolved' = Append(resolved, [fn |-> "getVoiceIdForPersonality",
                                   personality |-> personality,
                                   result |-> getVoiceIdForPersonality(personality)])
  /\ UNCHANGED <<now, lifecycle, link, clientOut, tasks, webhookLog, posts, audioCache>>

resolvePrompt(personality) ==
  /\ Len(resolved) < MaxResolves
  /\ resolved' = Append(resolved, [fn |-> "getPersonalitySystemPrompt",
                                   personality |-> personality,
                                   result |-> getPersonalitySystemPrompt(personality)])
  /\ UNCHANGED <<now, lifecycle, link, clientOut, tasks, webhookLog, posts, audioCache>>

NextResolve == \E p \in AnyPersonalities : resolveVoice(p) \/ resolvePrompt(p)

SpecResolve == Init /\ [][NextResolve]_vars

\* ---- what the claims speak of

\* Session object s is the value of some entry of activeSessions.
Registered(s) == \E k \in DOMAIN activeSessions : activeSessions[k] = s
Started(c) == phase[c] # "idle"
Sent(c, type) == \E j \in DOMAIN clientOut[c] : clientOut[c][j].type = type
CountSent(c, type) == Cardinality({j \in DOMAIN clientOut[c] : clientOut[c][j].type = type})
\* The link of Session object s reached OPEN (its 'open' handler sent the
\* initialization frame).
Opened(s) == \E j \in DOMAIN link[s].frames : link[s].frames[j].init
\* The synthesis connection of s failed to establish.
ConnectFailed(s) == link[s].errored /\ ~Opened(s)

\* C1: however often cleanupSession runs on a streamSessionId, overlapping or
\* not, incrementVoiceMinutes is called at most once for a session and close()
\* at most once on its link.
C1_TeardownAtMostOnce ==
  \A s \in Conns : Len(quotaLog[s]) <= 1 /\ link[s].closeCalls <= 1

\* C2: the two indices agree in every state: sessionKeyMap maps sessionId s to
\* streamSessionId k exactly when activeSessions holds under k a session whose
\* sessionId is s.
C2_IndicesAgree ==
  \A c \in Conns : \A k \in DOMAIN activeSessions \cup {key[c]} :
    Started(c) =>
      LET s == sess[c].sessionId
      IN (s \in DOMAIN sessionKeyMap /\ sessionKeyMap[s] = k)
           <=> (k \in DOMAIN activeSessions /\ sess[activeSessions[k]].sessionId = s)

\* C3: for each sessionId at most one entry of activeSessions has that
\* sessionId and isActive = true.
C3_OneActiveStreamPerSession ==
  \A c \in Conns :
    Cardinality({k \in DOMAIN activeSessions :
                   /\ sess[activeSessions[k]].sessionId = sess[c].sessionId
                   /\ sess[activeSessions[k]].isActive}) <= 1

\* C4: a call of initializeVoiceSession registers its Session under a
\* streamSessionId that is not a key of activeSessions at the time of the call.
C4_StartUsesFreshKey ==
  [][\A c \in Conns :
       (phase[c] = "idle" /\ phase'[c] # "idle") => key'[c] \notin DOMAIN activeSessions]_vars

\* C5: a link that was opened by a start and whose session is no longer in the
\* registry has received exactly one close().
C5_LinkClosedExactlyOnce ==
  \A s \in Conns :
    (Started(s) /\ link[s].state # "absent" /\ ~Registered(s)) => link[s].closeCalls = 1

\* The start of c failed and the failure has been handled to the end: the
\* catch of initializeVoiceSession ran and the cleanupSession it called has
\* returned, or the link's 'error' handler ran for a connection that was never
\* established.
SetupFailureHandled(c) ==
  \/ phase[c] = "failed" /\ inv[c].pc = "done"
  \/ ConnectFailed(c)

\* C6: after a failed setup (an adapter throws, or the synthesis connection
\* fails to establish) neither index holds an entry for the session and its
\* link, if created, is closed.
C6_FailedStartLeavesNothing ==
  \A c \in Conns :
    SetupFailureHandled(c) =>
      /\ ~Registered(c)
      /\ \A s \in DOMAIN sessionKeyMap : sessionKeyMap[s] # key[c]
      /\ (link[c].state # "absent" => link[c].closeCalls >= 1)

\* C7: a start that fails sends exactly one error message to its client and
\* no voice_ready.
C7_FailedStartOneErrorNoReady ==
  \A c \in Conns :
    (phase[c] = "failed" \/ ConnectFailed(c)) =>
      CountSent(c, "error") = 1 /\ ~Sent(c, "voice_ready")

\* C8: voice_ready has been sent only if the session's link has opened and
\* the initialization frame has been sent on it.
C8_ReadyOnlyAfterLinkOpen ==
  \A c \in Conns : Sent(c, "voice_ready") => Opened(c)

\* C9: a handler run that failed because the transcription or the Router call
\* failed has sent an error message to the client.
C9_FailureReportedToClient ==
  \A c \in Conns : \A i \in DOMAIN tasks[c] :
    tasks[c][i].pc = "failed" =>
      \E j \in DOMAIN clientOut[c] :
        clientOut[c][j].type = "error" /\ clientOut[c][j].task = i

\* The step is the failure of a handler run of c.
HandlerFails(c) ==
  \E i \in DOMAIN tasks[c] : tasks[c][i].pc # "failed" /\ tasks'[c][i].pc = "failed"

\* C10: the step in which a handler run fails changes neither index, no field
\* of any Session, no link's state or close() count, nor whether the
\* connection's handlers still take messages.
C10_FailureKeepsSession ==
  [][\A c \in Conns :
       HandlerFails(c) =>
         /\ UNCHANGED <<activeSessions, sessionKeyMap, sess, phase, inv>>
         /\ \A s \in Conns : /\ link'[s].state = link[s].state
                             /\ link'[s].closeCalls = link[s].closeCalls]_vars

\* C10: a run failed with the session open, and a message that arrived after
\* the failure was handled to the end and spoken.
C10_Witness ==
  \E c \in Conns :
    /\ Len(tasks[c]) = 2
    /\ tasks[c][1].pc = "failed"
    /\ tasks[c][2].kind = "audio_input" /\ tasks[c][2].pc = "done"
    /\ Registered(c) /\ sess[c].isActive /\ link[c].closeCalls = 0
    /\ sess[c].sessionId \in DOMAIN sessionKeyMap
    /\ \E j, k \in DOMAIN clientOut[c] :
         /\ j < k
         /\ clientOut[c][j].type = "error" /\ clientOut[c][j].task = 1
         /\ clientOut[c][k].type = "audio_processing" /\ clientOut[c][k].task = 2
    /\ \E j \in DOMAIN link[c].frames : link[c].frames[j].try_trigger_generation

\* The answer of generateContent is a string that is empty or all white space.
Blank(heard) ==
  /\ heard \notin {Pending, Threw, Undefined}
  /\ \A j \in DOMAIN heard : heard[j] \in WhiteSpace
SentBy(c, i, type) ==
  \E j \in DOMAIN clientOut[c] : clientOut[c][j].type = type /\ clientOut[c][j].task = i
PostsBy(c, i) == {j \in DOMAIN posts[c] : posts[c][j].task = i}
LogsBy(c, i) == {j \in DOMAIN webhookLog[c] : webhookLog[c][j].task = i}
FramesBy(c, i) == {j \in DOMAIN link[c].frames : link[c].frames[j].task = i}

\* C11: an audio_input whose transcription is empty or all white space sends
\* no transcript and no ai_response, makes no Router call (no POST, no audit
\* record, no run of routeToN8NWebhook) and sends no frame on the link.
C11_BlankTranscriptionDoesNothing ==
  \A c \in Conns : \A i \in DOMAIN tasks[c] :
    Blank(tasks[c][i].heard) =>
      /\ ~SentBy(c, i, "transcript") /\ ~SentBy(c, i, "ai_response")
      /\ PostsBy(c, i) = {} /\ LogsBy(c, i) = {}
      /\ tasks[c][i].pc \in {"done", "failed"} /\ tasks[c][i].text = Undefined
      /\ FramesBy(c, i) = {}

\* C11: the handler of an audio_input ended on a white-space transcription
\* while the link was open.
C11_Witness ==
  \E c \in Conns : \E i \in DOMAIN tasks[c] :
    /\ tasks[c][i].heard = <<" ">>
    /\ tasks[c][i].pc \in {"done", "failed"}
    /\ link[c].state = "open"

\* C12: an audio_input whose transcription is empty or all white space sends
\* no error message to the client.
C12_BlankTranscriptionNoError ==
  \A c \in Conns : \A i \in DOMAIN tasks[c] :
    Blank(tasks[c][i].heard) => ~SentBy(c, i, "error")

\* routeToN8NWebhook was called by the run i (with the text it routes) ...
RouterCalled(c, i) == tasks[c][i].text # Undefined
\* ... and the call is over: it returned ("done") or threw ("failed").
RouterOver(c, i) == RouterCalled(c, i) /\ tasks[c][i].pc \in {"done", "failed"}
LogsByStatus(c, i, status) == {j \in LogsBy(c, i) : webhookLog[c][j].status = status}

\* C13 (as stated): every call of routeToN8NWebhook that is over has appended
\* exactly one audit record, whichever step failed.
C13_ExactlyOneRecord ==
  \A c \in Conns : \A i \in DOMAIN tasks[c] :
    RouterOver(c, i) => Cardinality(LogsBy(c, i)) = 1

\* C13: a call of routeToN8NWebhook never appends two audit records, and a
\* call that is over has appended exactly one, unless the write of the error
\* record in its catch failed: then it has appended none.
C13_OneRecordUnlessErrorWriteFails ==
  \A c \in Conns : \A i \in DOMAIN tasks[c] :
    /\ Cardinality(LogsBy(c, i)) <= 1
    /\ RouterOver(c, i) =>
         Cardinality(LogsBy(c, i)) = IF tasks[c][i].errWrite = "failed" THEN 0 ELSE 1

\* C13: two calls are over; the first wrote its success record, the second
\* failed to write the success record after a good POST and wrote the error
\* record in the catch.
C13_Witness ==
  /\ Len(tasks[1]) = 2
  /\ RouterOver(1, 1) /\ LogsByStatus(1, 1, "success") # {}
  /\ RouterOver(1, 2) /\ tasks[1][2].postOk /\ tasks[1][2].errWrite = "ok"
  /\ LogsByStatus(1, 2, "error") # {}

\* The lookup or the POST of the call of the run i failed.
LookupOrPostFailed(c, i) ==
  /\ RouterCalled(c, i)
  /\ ~tasks[c][i].postOk
  /\ tasks[c][i].pc \in {"errlog", "failed"}

\* C14 (as stated): when the lookup or the POST failed, one record with status
\* error is in the log by the time the error reaches the caller, and the call
\* never returns normally.
C14_ErrorRecordThenRethrow ==
  \A c \in Conns : \A i \in DOMAIN tasks[c] :
    /\ LookupOrPostFailed(c, i) /\ tasks[c][i].pc = "failed" =>
         Cardinality(LogsByStatus(c, i, "error")) = 1
    /\ RouterCalled(c, i) /\ tasks[c][i].pc = "done" => tasks[c][i].postOk

\* C14: when the lookup or the POST failed the call never returns normally
\* (it returns only after a good POST and a written success record); by the
\* time the error reaches the caller one record with status error is in the
\* log if its write succeeded, and none if its write failed.
C14_RethrowAndRecordIfWritten ==
  \A c \in Conns : \A i \in DOMAIN tasks[c] :
    /\ LookupOrPostFailed(c, i) /\ tasks[c][i].pc = "failed" =>
         /\ tasks[c][i].errWrite \in {"ok", "failed"}
         /\ Cardinality(LogsByStatus(c, i, "error")) =
              IF tasks[c][i].errWrite = "ok" THEN 1 ELSE 0
         /\ LogsByStatus(c, i, "success") = {}
    /\ RouterCalled(c, i) /\ tasks[c][i].pc = "done" =>
         /\ tasks[c][i].postOk /\ tasks[c][i].errWrite = "none"
         /\ Cardinality(LogsByStatus(c, i, "success")) = 1

\* C14: one call threw after a failed lookup or POST with its error record
\* written, another threw with the write of the error record failing too.
C14_Witness ==
  /\ Len(tasks[1]) = 2
  /\ \A i \in {1, 2} : LookupOrPostFailed(1, i) /\ tasks[1][i].pc = "failed"
  /\ tasks[1][1].errWrite = "ok" /\ Len(posts[1]) = 1
  /\ tasks[1][2].errWrite = "failed"

\* The calls of incrementVoiceMinutes made so far, each with the Session
\* object it was made for.
Reports == {r \in Conns \X (1..MaxConn) : r[2] \in DOMAIN quotaLog[r[1]]}
\* ceil(durationMs / 60000) by its definition: the least whole number of
\* minutes that is not shorter than the duration
CeilMinutes(durationMs) ==
  LET Enough(m) == m * 60000 >= durationMs
  IN CHOOSE m \in 0..(durationMs \div 60000 + 1) : Enough(m) /\ \A k \in 0..(m - 1) : ~Enough(k)

\* C15: every call of incrementVoiceMinutes carries the sessionId of the
\* session that is torn down and ceil((now - startTime) / 60000), for the
\* durations 0, 1000, 60000 and 61000 ms; 61 s is reported as 2, 60 s as 1.
C15_ReportIsCeilOfDuration ==
  \A r \in Reports :
    LET e == quotaLog[r[1]][r[2]]
    IN /\ e.sessionId = sess[r[1]].sessionId
       /\ e.durationMs \in {t - u : t, u \in Instants} /\ e.durationMs >= 0
       /\ e.minutes = CeilMinutes(e.durationMs)
       /\ e.durationMs = 61000 => e.minutes = 2
       /\ e.durationMs = 60000 => e.minutes = 1

\* C15: one session was reported after 61 s and another after exactly 60 s.
C15_Witness ==
  /\ \E r \in Reports : quotaLog[r[1]][r[2]].durationMs = 61000
                        /\ quotaLog[r[1]][r[2]].minutes = 2
  /\ \E r \in Reports : quotaLog[r[1]][r[2]].durationMs = 60000
                        /\ quotaLog[r[1]][r[2]].minutes = 1

\* C16 (as stated): every call of incrementVoiceMinutes reports at least 1
\* minute, a duration of 0 ms included.
C16_ReportAtLeastOne ==
  \A r \in Reports : quotaLog[r[1]][r[2]].minutes >= 1

\* C16: a call of incrementVoiceMinutes for a duration above 0 ms reports at
\* least 1 minute (1000 ms reports 1); a duration of exactly 0 ms reports 0.
C16_AtLeastOneIfPositive ==
  \A r \in Reports :
    LET e == quotaLog[r[1]][r[2]]
    IN /\ e.durationMs > 0 => e.minutes >= 1
       /\ e.durationMs = 1000 => e.minutes = 1
       /\ e.durationMs = 0 => e.minutes = 0

\* C16: one session was reported after 1000 ms and another in the millisecond
\* of its start.
C16_Witness ==
  /\ \E r \in Reports : quotaLog[r[1]][r[2]].durationMs = 1000
                        /\ quotaLog[r[1]][r[2]].minutes = 1
  /\ \E r \in Reports : quotaLog[r[1]][r[2]].durationMs = 0
                        /\ quotaLog[r[1]][r[2]].minutes = 0

\* C17: at most one run of the 'message' handler of a session is in flight at
\* any time: a run does not start before the run of the message received
\* before it has ended.
C17_OneHandlerAtATime ==
  \A c \in Conns : Cardinality(InFlight(c)) <= 1

\* The registry still holds the Session object of connection c under its key.
StillRegistered(c) ==
  /\ key[c] \in DOMAIN activeSessions
  /\ activeSessions[key[c]] = c

\* C18: once the 'close' event of a client has been handled, no state shows
\* its session in the registry: the entries are removed in the step that
\* handles the event.
C18_UnregisteredOnceCloseHandled ==
  \A c \in Conns :
    phase[c] = "closed" =>
      /\ ~StillRegistered(c)
      /\ ~(sess[c].sessionId \in DOMAIN sessionKeyMap
           /\ sessionKeyMap[sess[c].sessionId] = key[c])

\* Every call was made, every client is gone and every cleanupSession has
\* run to its end: nothing but the clock moves from here.
AllOver ==
  \A c \in Conns : phase[c] \in {"failed", "closed"} /\ inv[c].pc \in {"none", "done"}

\* C19: when every client has disconnected and every teardown has run to its
\* end, each session whose start succeeded was torn down by exactly one call
\* of cleanupSession for its disconnect, is in neither index, and has its
\* link closed.
C19_DisconnectTearsDown ==
  AllOver =>
    \A c \in Conns :
      phase[c] = "closed" =>
        /\ inv[c].pc = "done"
        /\ ~StillRegistered(c)
        /\ sess[c].sessionId \notin DOMAIN sessionKeyMap
        /\ link[c].state = "closed"

\* C20: the step in which incrementVoiceMinutes rejects still closes the link
\* of the session that is torn down, removes its entries from both indices,
\* and sends nothing to any client.
C20_QuotaFailureDoesNotBlock ==
  [][\A c \in Conns :
       (inv[c].pc = "quota" /\ inv'[c].pc = "done" /\ inv'[c].quota = "rejected") =>
         LET s == inv[c].session
         IN /\ key[c] \notin DOMAIN activeSessions'
            /\ sess[s].sessionId \notin DOMAIN sessionKeyMap'
            /\ sess[s].hasWs =>
                 /\ link'[s].state = "closed"
                 /\ link'[s].closeCalls = link[s].closeCalls + 1
            /\ clientOut' = clientOut]_vars

\* C20: the teardown of a disconnected session, whose link was open, has run
\* to its end with the quota call rejecting.
C20_Witness ==
  \E c \in Conns :
    /\ phase[c] = "closed"
    /\ inv[c].pc = "done" /\ inv[c].quota = "rejected"
    /\ inv[c].session = c /\ Opened(c)
    /\ link[c].state = "closed" /\ ~StillRegistered(c)
    /\ \A j \in DOMAIN clientOut[c] : clientOut[c][j].type # "error"

\* The sessionId argument of call c: the one its streamSessionId was built from.
SessionIdArg(c) == key[c][1]

\* C21: the Session object that a call of initializeVoiceSession registers
\* carries the sessionId argument of the call, whatever other calls do, and
\* every Router payload, audit record, cache record and usage report made for
\* the session carries that same value.
C21_SessionIdKept ==
  \A c \in Conns :
    Started(c) =>
      /\ sess[c].sessionId = SessionIdArg(c)
      /\ key[c] \in DOMAIN activeSessions =>
           sess[activeSessions[key[c]]].sessionId = SessionIdArg(c)
      /\ \A j \in DOMAIN posts[c] : posts[c][j].sessionId = SessionIdArg(c)
      /\ \A j \in DOMAIN webhookLog[c] : webhookLog[c][j].sessionId = SessionIdArg(c)
      /\ \A j \in DOMAIN audioCache[c] : audioCache[c][j].sessionId = SessionIdArg(c)
      /\ \A j \in DOMAIN quotaLog[c] : quotaLog[c][j].sessionId = SessionIdArg(c)

\* C21: two sessions with different sessionIds are started, and the second
\* has a Router payload, an audit record, a cache record and a usage report.
C21_Witness ==
  /\ Started(1) /\ Started(2) /\ SessionIdArg(1) # SessionIdArg(2)
  /\ posts[2] # <<>> /\ webhookLog[2] # <<>> /\ audioCache[2] # <<>>
  /\ quotaLog[2] # <<>> /\ posts[1] # <<>>

\* C22: in every step, the personality of a started session stays the one its
\* start stored, and every Router payload and audit record of a connection
\* carries the personality of that connection's own session, whatever the
\* other session's personality, key and messages are.
C22_OwnPersonality ==
  [][\A c \in Conns :
       /\ Started(c) => sess'[c].personality = sess[c].personality
       /\ \A j \in DOMAIN posts'[c] : posts'[c][j].personality = sess'[c].personality
       /\ \A j \in DOMAIN webhookLog'[c] :
            webhookLog'[c][j].requestData.personality = sess'[c].personality]_vars

\* C22: two sessions with different personalities (and the same
\* streamSessionId) are open together and a Router call was made for each,
\* the first's after the second's start.
C22_Witness ==
  /\ phase[1] = "ready" /\ phase[2] = "ready"
  /\ sess[1].personality # sess[2].personality
  /\ key[1] = key[2]
  /\ posts[1] # <<>> /\ posts[2] # <<>>
  /\ posts[1][1].personality = "Savantist" /\ posts[2][1].personality = "Mystery"

\* The run i of connection c takes the step from position `from` to `to`.
Moves(c, i, from, to) ==
  /\ i \in DOMAIN tasks[c]
  /\ tasks[c][i].pc = from
  /\ tasks'[c][i].pc = to

\* C23: the run of a text_input with text t on a session with personality p
\* makes no transcription call; once the session lookup succeeded it POSTs one
\* payload, with personality p, modality VOICE and content t, and never a
\* second one; when routeToN8NWebhook returns a reply with a usable response r
\* while the link is open, exactly one frame, {text: r,
\* try_trigger_generation: true}, is appended to the link and the run sends no
\* other frame.
C23_TextInputEndToEnd ==
  [][\A c \in Conns : \A i \in DOMAIN tasks'[c] :
       tasks'[c][i].kind = "text_input" =>
         /\ tasks'[c][i].heard = Pending
         /\ Cardinality(PostsBy(c, i))' <= 1
         /\ Cardinality(FramesBy(c, i))' <= 1
         /\ Moves(c, i, "lookup", "post") =>
              /\ Len(posts'[c]) = Len(posts[c]) + 1
              /\ LET sent == posts'[c][Len(posts'[c])]
                 IN /\ sent.personality = sess[c].personality
                    /\ sent.modality = "VOICE"
                    /\ sent.content = tasks[c][i].text
                    /\ sent.task = i
         /\ (Moves(c, i, "log", "done") /\ link[c].state = "open"
               /\ tasks[c][i].data.response \notin {Undefined, <<>>}) =>
              link'[c].frames =
                Append(link[c].frames,
                       [text |-> tasks[c][i].data.response, init |-> FALSE,
                        try_trigger_generation |-> TRUE, flush |-> FALSE,
                        task |-> i])]_vars

\* C23: a text_input "Hi" on a session with personality Savantist was handled
\* to the end with the link open: one payload, one frame with the reply "ok".
C23_Witness ==
  \E i \in DOMAIN tasks[1] :
    /\ tasks[1][i].kind = "text_input" /\ tasks[1][i].pc = "done"
    /\ tasks[1][i].text = <<"H", "i">> /\ sess[1].personality = "Savantist"
    /\ \E j \in PostsBy(1, i) : posts[1][j].content = <<"H", "i">>
                                /\ posts[1][j].personality = "Savantist"
    /\ \E j \in FramesBy(1, i) : link[1].frames[j].text = <<"o", "k">>
                                 /\ link[1].frames[j].try_trigger_generation

\* The step is the handling of a message of kind `kind` on connection c: its
\* run is the new last run of the connection.
Handles(c, kind) ==
  /\ Len(tasks'[c]) = Len(tasks[c]) + 1
  /\ tasks'[c][Len(tasks'[c])].kind = kind

\* The step sends nothing to any client, makes no Router call, writes no
\* record and leaves the registry, the Session objects and every teardown as
\* they are.
NothingButTheLink ==
  UNCHANGED <<clientOut, posts, webhookLog, audioCache, activeSessions,
              sessionKeyMap, sess, phase, key, inv, quotaLog>>

\* C24 (as stated): the handling of a stop message appends exactly one flush
\* frame to the link of the session.
C24_StopAlwaysFlushes ==
  [][\A c \in Conns :
       Handles(c, "stop") =>
         /\ Len(link'[c].frames) = Len(link[c].frames) + 1
         /\ link'[c].frames[Len(link'[c].frames)].flush]_vars

\* C24: the handling of a stop message appends exactly one flush frame
\* {text: "", flush: true} to the link of the session when the link is OPEN
\* and no frame when the link is missing or not OPEN; in both cases it does
\* nothing else: no Router call, no transcription call, no message to the
\* client, no change of the registry, and the session and the state of its
\* link stay as they are.
C24_StopFlushesOpenLink ==
  [][\A c \in Conns :
       Handles(c, "stop") =>
         LET i == Len(tasks'[c])
         IN /\ link'[c].frames =
                 IF sess[c].hasWs /\ link[c].state = "open"
                 THEN Append(link[c].frames,
                             [text |-> <<>>, init |-> FALSE,
                              try_trigger_generation |-> FALSE, flush |-> TRUE,
                              task |-> i])
                 ELSE link[c].frames
            /\ link'[c].state = link[c].state
            /\ link'[c].closeCalls = link[c].closeCalls
            /\ \A d \in Conns \ {c} : link'[d] = link[d]
            /\ tasks'[c][i].pc = "done" /\ tasks'[c][i].heard = Pending
            /\ \A j \in DOMAIN tasks[c] : tasks'[c][j] = tasks[c][j]
            /\ NothingButTheLink]_vars

\* C24: one stop was handled while the link was still connecting (no frame)
\* and a second one with the link open (one flush frame); the session is
\* still open.
C24_Witness ==
  /\ Len(tasks[1]) = 2 /\ phase[1] = "ready" /\ link[1].state = "open"
  /\ tasks[1][1].kind = "stop" /\ tasks[1][2].kind = "stop"
  /\ FramesBy(1, 1) = {}
  /\ \E j \in FramesBy(1, 2) : link[1].frames[j].flush
  /\ Cardinality(FramesBy(1, 2)) = 1

\* A field of the reply that is a non-empty string (not absent, null or "").
Usable(x) == x # Undefined /\ Len(x) > 0

\* What the step in which routeToN8NWebhook returns to the run i submits as
\* the reply: `reply` in the ai_response (for an audio_input) and, when the
\* link is OPEN, in one text frame; the run ends without failing.
Replies(c, i, reply) ==
  /\ tasks'[c][i].pc = "done"
  /\ link'[c].frames =
       IF link[c].state = "open"
       THEN Append(link[c].frames,
                   [text |-> reply, init |-> FALSE, try_trigger_generation |-> TRUE,
                    flush |-> FALSE, task |-> i])
       ELSE link[c].frames
  /\ clientOut'[c] =
       IF tasks[c][i].kind = "audio_input"
       THEN Append(clientOut[c], [type |-> "ai_response", text |-> reply, task |-> i])
       ELSE clientOut[c]

\* C25: when routeToN8NWebhook returns a reply whose response and text are
\* both absent or empty, the reply submitted is the text that was routed (the
\* typed text or the transcript) and the run does not fail; a usable response
\* is the reply whether or not text is usable, and a usable text is the reply
\* when response is not.
C25_ReplyFallsBackToInput ==
  [][\A c \in Conns : \A i \in DOMAIN tasks[c] :
       (tasks[c][i].pc = "log" /\ tasks'[c][i].pc # "log" /\ tasks'[c][i].pc # "errlog") =>
         LET data == tasks[c][i].data
         IN /\ (~Usable(data.response) /\ ~Usable(data.text)) =>
                 Replies(c, i, tasks[c][i].text)
            /\ Usable(data.response) => Replies(c, i, data.response)
            /\ (~Usable(data.response) /\ Usable(data.text)) =>
                 Replies(c, i, data.text)]_vars

\* C25: a spoken message (transcript "yo") got a reply with empty response
\* and text and was answered with "yo"; a typed message got a reply with
\* response and text and was answered with the response.
C25_Witness ==
  /\ Len(tasks[1]) = 2
  /\ tasks[1][1].kind = "audio_input" /\ tasks[1][1].pc = "done"
  /\ tasks[1][1].data = [response |-> <<>>, text |-> <<>>]
  /\ \E j \in FramesBy(1, 1) : link[1].frames[j].text = <<"y", "o">>
  /\ \E j \in DOMAIN clientOut[1] :
       clientOut[1][j] = [type |-> "ai_response", text |-> <<"y", "o">>, task |-> 1]
  /\ tasks[1][2].kind = "text_input" /\ tasks[1][2].pc = "done"
  /\ tasks[1][2].data = [response |-> <<"o", "k">>, text |-> <<"t">>]
  /\ \E j \in FramesBy(1, 2) : link[1].frames[j].text = <<"o", "k">>

\* C26: the handling of a message whose type is none of audio_input,
\* text_input and stop changes nothing: the registry, the Session objects and
\* every link stay as they are, nothing is sent to a client, no Router call
\* is made and no frame is sent.
C26_UnknownTypeIgnored ==
  [][\A c \in Conns :
       (Len(tasks'[c]) = Len(tasks[c]) + 1
          /\ tasks'[c][Len(tasks'[c])].kind \notin {"audio_input", "text_input", "stop"}) =>
         /\ link' = link
         /\ NothingButTheLink
         /\ now' = now
         /\ tasks'[c][Len(tasks'[c])].heard = Pending
         /\ tasks'[c][Len(tasks'[c])].pc = "done"
         /\ \A j \in DOMAIN tasks[c] : tasks'[c][j] = tasks[c][j]]_vars

\* C26: a message of type ping was handled on an open session with an open
\* link, and nothing was sent for it.
C26_Witness ==
  \E i \in DOMAIN tasks[1] :
    /\ tasks[1][i].kind = "ping" /\ tasks[1][i].pc = "done"
    /\ phase[1] = "ready" /\ link[1].state = "open"
    /\ FramesBy(1, i) = {} /\ PostsBy(1, i) = {}
    /\ \A j \in DOMAIN clientOut[1] : clientOut[1][j].task # i

\* The entries the two resolvers are configured with.
ConfiguredVoice ==
  [p \in {"AUtistic AI", "Level 1 ASD", "Savantist"} |->
     IF p = "AUtistic AI" THEN "BRruTxiLM2nszrcCIpz1"
     ELSE IF p = "Level 1 ASD" THEN "g2W4HAjKvdW93AmsjsOx"
     ELSE "WAixHs5LYSwPVDJxQgN7"]

\* C27: for every personality string, getVoiceIdForPersonality and
\* getPersonalitySystemPrompt return the entry of the personality when it is
\* one of the three configured keys and the entry of 'AUtistic AI' otherwise.
C27_ResolversDefault ==
  \A j \in DOMAIN resolved :
    LET call == resolved[j]
        entry == IF call.personality \in DOMAIN ConfiguredVoice
                 THEN call.personality ELSE "AUtistic AI"
    IN IF call.fn = "getVoiceIdForPersonality"
       THEN call.result = ConfiguredVoice[entry]
       ELSE call.result = getPersonalitySystemPrompt(entry)

\* C28: a run whose reply could not be sent to the link, because the link was
\* missing or not OPEN when routeToN8NWebhook returned, has sent an error
\* message to the client.
C28_UnsentReplyReported ==
  \A c \in Conns : \A i \in DOMAIN tasks[c] :
    (RouterCalled(c, i) /\ tasks[c][i].pc = "done" /\ FramesBy(c, i) = {}) =>
      SentBy(c, i, "error")

\* C29: every step that removes an entry from activeSessions or from
\* sessionKeyMap is the last step of a cleanupSession on that entry whose
\* quota call was made before, for the sessionId of the entry, and returns or
\* fails in this step.
C29_ReportedBeforeRemoved ==
  [][/\ \A k \in DOMAIN activeSessions \ DOMAIN activeSessions' :
          \E c \in Conns :
            /\ key[c] = k
            /\ inv[c].pc = "quota" /\ inv'[c].pc = "done"
            /\ inv'[c].quota \in {"ok", "rejected"}
            /\ \E j \in DOMAIN quotaLog[inv[c].session] :
                 quotaLog[inv[c].session][j].sessionId = k[1]
     /\ \A sid \in DOMAIN sessionKeyMap \ DOMAIN sessionKeyMap' :
          \E c \in Conns :
            /\ inv[c].pc = "quota" /\ inv'[c].pc = "done"
            /\ \E j \in DOMAIN quotaLog[inv[c].session] :
                 quotaLog[inv[c].session][j].sessionId = sid]_vars

\* C29: a disconnected session was reported and then removed from both
\* indices.
C29_Witness ==
  \E c \in Conns :
    /\ phase[c] = "closed" /\ inv[c].pc = "done" /\ inv[c].session = c
    /\ quotaLog[c] # <<>>
    /\ key[c] \notin DOMAIN activeSessions
    /\ sess[c].sessionId \notin DOMAIN sessionKeyMap

\* The sends of type `type` that the run i of connection c made to the client.
SendsBy(c, i, type) ==
  {j \in DOMAIN clientOut[c] : clientOut[c][j].type = type /\ clientOut[c][j].task = i}
\* Every send of type `first` by the run i comes before every send of type
\* `second` by it.
SentBefore(c, i, first, second) ==
  \A j \in SendsBy(c, i, first), k \in SendsBy(c, i, second) : j < k

\* C30: the sends to a client are kept in the order they were issued, and
\* the run of an audio_input does its effects in this order, none of them
\* twice: audio_processing, the transcription call, transcript, the Router
\* call, ai_response, the text frame; a run that went through to the frame
\* did each of them exactly once.
C30_AudioInputInOrder ==
  /\ [][\A c \in Conns :
          /\ Len(clientOut'[c]) >= Len(clientOut[c])
          /\ \A j \in DOMAIN clientOut[c] : clientOut'[c][j] = clientOut[c][j]]_vars
  /\ [](\A c \in Conns : \A i \in DOMAIN tasks[c] :
          tasks[c][i].kind = "audio_input" =>
            LET sends(type) == Cardinality(SendsBy(c, i, type))
                heard == tasks[c][i].heard
                posted == Cardinality(PostsBy(c, i))
                framed == Cardinality(FramesBy(c, i))
            IN /\ sends("audio_processing") = 1
               /\ sends("transcript") <= 1 /\ sends("ai_response") <= 1
               /\ posted <= 1 /\ framed <= 1
               /\ sends("transcript") = 1 => heard \notin {Pending, Threw}
               /\ posted = 1 => sends("transcript") = 1
               /\ sends("ai_response") = 1 => posted = 1
               /\ framed = 1 => sends("ai_response") = 1
               /\ SentBefore(c, i, "audio_processing", "transcript")
               /\ SentBefore(c, i, "transcript", "ai_response")
               /\ (tasks[c][i].pc = "done" /\ framed = 1) =>
                    /\ sends("transcript") = 1 /\ posted = 1
                    /\ sends("ai_response") = 1
                    /\ sends("error") = 0)

\* C30: an audio_input was handled through to the frame while a second
\* message was being handled.
C30_Witness ==
  \E i \in DOMAIN tasks[1] :
    /\ tasks[1][i].kind = "audio_input" /\ tasks[1][i].pc = "done"
    /\ Cardinality(FramesBy(1, i)) = 1
    /\ Cardinality(SendsBy(1, i, "ai_response")) = 1
    /\ Len(tasks[1]) = 2

\* The messages received on link s that carry audio, by their number.
AudioFragments(s) ==
  {n \in DOMAIN link[s].received : link[s].received[n].kind \in {"audio", "final"}}
FinalFragments(s) ==
  {n \in DOMAIN link[s].received : link[s].received[n].kind = "final"}
\* The positions of the audio_output messages in what was sent to client c.
AudioOutputs(c) == {j \in DOMAIN clientOut[c] : clientOut[c][j].type = "audio_output"}
CachedFor(s, n) == {j \in DOMAIN audioCache[s] : audioCache[s][j].fragment = n}

\* Every audio fragment received on a link was sent once to the client of the
\* session that opened the link, in the order received; cache records exist
\* only for final fragments, carry the session's sessionId and
\* conversationId, and no two records anywhere have the same token.
ForwardedAndKeyed ==
  /\ \A s \in Conns :
       /\ \A n \in AudioFragments(s) :
            Cardinality({j \in AudioOutputs(s) : clientOut[s][j].fragment = n}) = 1
       /\ \A j \in AudioOutputs(s) : clientOut[s][j].fragment \in AudioFragments(s)
       /\ \A j, k \in AudioOutputs(s) :
            j < k => clientOut[s][j].fragment < clientOut[s][k].fragment
       /\ \A j \in DOMAIN audioCache[s] :
            /\ audioCache[s][j].fragment \in FinalFragments(s)
            /\ audioCache[s][j].sessionId = sess[s].sessionId
            /\ audioCache[s][j].conversationId = sess[s].conversationId
  /\ \A s, t \in Conns : \A j \in DOMAIN audioCache[s], k \in DOMAIN audioCache[t] :
       audioCache[s][j].secureToken = audioCache[t][k].secureToken => (s = t /\ j = k)

\* C31 (as stated): every audio fragment is forwarded, in order, and every
\* final fragment has exactly one cache record.
C31_FinalAlwaysCached ==
  /\ ForwardedAndKeyed
  /\ \A s \in Conns : \A n \in FinalFragments(s) : Cardinality(CachedFor(s, n)) = 1

\* C31: every audio fragment received on a link is sent once to the client of
\* its session as audio_output, in the order received, whether or not a text
\* was submitted; a final fragment has exactly one cache record, with a token
\* of its own and the session's sessionId and conversationId, when
\* createAudioCache succeeded and none when it failed; other fragments have
\* none.
C31_ForwardedCachedIfStored ==
  /\ ForwardedAndKeyed
  /\ \A s \in Conns : \A n \in FinalFragments(s) :
       Cardinality(CachedFor(s, n)) = IF link[s].received[n].stored THEN 1 ELSE 0

\* C31: with no message from the client, two final fragments were received:
\* both were forwarded, the first was stored, the second was not.
C31_Witness ==
  /\ tasks[1] = <<>>
  /\ Len(link[1].received) = 2
  /\ link[1].received[1] = [kind |-> "final", stored |-> TRUE]
  /\ link[1].received[2] = [kind |-> "final", stored |-> FALSE]
  /\ Cardinality(AudioOutputs(1)) = 2
  /\ Len(audioCache[1]) = 1

\* The positions of the initialization frames among the frames sent on link s.
InitFrames(s) == {j \in DOMAIN link[s].frames : link[s].frames[j].init}
\* The frame carries what the synthesis service needs to start a stream.
Configures(f) ==
  /\ f.text # <<>>
  /\ DOMAIN f.voice_settings = {"stability", "similarity_boost", "speed"}
  /\ f.chunk_length_schedule # <<>>
  /\ f.xi_api_key = "process.env.ELEVENLABS_API_KEY"

\* C32: nothing is sent on a link that has not opened; once it has opened
\* the first frame sent on it is the initialization frame (placeholder text
\* that is not empty, voice settings, chunk schedule, credential), and no other
\* frame of the link is one: every text and flush frame comes after it.
C32_OneInitFrameFirst ==
  \A s \in Conns :
    /\ link[s].state \in {"absent", "connecting"} => link[s].frames = <<>>
    /\ link[s].state = "open" => link[s].frames # <<>>
    /\ link[s].frames # <<>> =>
         /\ InitFrames(s) = {1}
         /\ Configures(link[s].frames[1])
         /\ \A j \in DOMAIN link[s].frames :
              (link[s].frames[j].flush \/ link[s].frames[j].try_trigger_generation) => j > 1

\* C32: a link carries the initialization frame, then a text frame, then a
\* flush frame.
C32_Witness ==
  /\ Len(link[1].frames) = 3
  /\ link[1].frames[1] = BosFrame
  /\ link[1].frames[2].try_trigger_generation
  /\ link[1].frames[3].flush

\* A frame that is not the initialization frame is sent on link s in the step.
FrameSentOn(s) ==
  /\ Len(link'[s].frames) = Len(link[s].frames) + 1
  /\ ~link'[s].frames[Len(link'[s].frames)].init
\* An audio_output message is sent to client c in the step.
AudioSentTo(c) ==
  /\ Len(clientOut'[c]) = Len(clientOut[c]) + 1
  /\ clientOut'[c][Len(clientOut'[c])].type = "audio_output"
\* A message handler of connection c starts, moves or ends in the step, and
\* no handler of another connection does.
OnlyHandlerOf(c) ==
  /\ tasks'[c] # tasks[c]
  /\ \A d \in Conns \ {c} : tasks'[d] = tasks[d]
\* A message of the synthesis service is received on link s in the step, and
\* on no other link.
OnlyReceivedOn(s) ==
  /\ Len(link'[s].received) = Len(link[s].received) + 1
  /\ \A t \in Conns \ {s} : link'[t].received = link[t].received

\* C33: each call of initializeElevenLabs creates the link of the Session it
\* was given; a step that sends a text or flush frame on the link of a
\* Session is a step of a message handler of that Session's connection and
\* sends on no other link, and a step that sends audio_output to a client is
\* the receipt of an audio message on the link of that client's Session, and
\* sends to no other client.
C33_OwnLinkOnly ==
  [][\A s \in Conns :
       /\ FrameSentOn(s) =>
            /\ OnlyHandlerOf(s)
            /\ \A t \in Conns \ {s} : link'[t].frames = link[t].frames
       /\ AudioSentTo(s) =>
            /\ OnlyReceivedOn(s)
            /\ link'[s].received[Len(link'[s].received)].kind \in {"audio", "final"}
            /\ \A t \in Conns \ {s} : clientOut'[t] = clientOut[t]]_vars

\* C33: two Sessions registered under one key, each with its own open link;
\* each link carries the frame of a message of its own connection, and each
\* client received the audio of its own link.
C33_Witness ==
  /\ key[1] = key[2]
  /\ \A s \in Conns :
       /\ Len(link[s].frames) = 2
       /\ link[s].frames[2].task = 1
       /\ tasks[s] # <<>>
       /\ AudioOutputs(s) # {}
  /\ link[1].frames[2].flush
  /\ link[2].frames[2].try_trigger_generation

\* initializeVoiceSession is called for connection c in the step.
Starts(c) == phase[c] = "idle" /\ phase'[c] # "idle"
\* An invocation of cleanupSession finds the Session of connection c in the
\* step and goes on to its first await.
TeardownFinds(c) ==
  \E d \in Conns : inv'[d] # inv[d] /\ inv'[d].pc = "import" /\ inv'[d].session = c

\* C34: once created, the Session of a connection keeps its startTime,
\* sessionId, conversationId, personality and link; isActive only goes from
\* true to false, and only in a step in which cleanupSession finds the
\* Session, a step that handles no message and runs no callback of the link.
\* The Session is written otherwise only by the start that creates it.
C34_SessionFrame ==
  [][\A c \in Conns :
       /\ phase[c] # "idle" =>
            /\ sess'[c].startTime = sess[c].startTime
            /\ sess'[c].sessionId = sess[c].sessionId
            /\ sess'[c].conversationId = sess[c].conversationId
            /\ sess'[c].personality = sess[c].personality
            /\ sess'[c].hasWs = sess[c].hasWs
            /\ sess'[c].isActive # sess[c].isActive =>
                 /\ sess[c].isActive /\ ~sess'[c].isActive
                 /\ TeardownFinds(c)
                 /\ tasks' = tasks
                 /\ \A s \in Conns : /\ link'[s].frames = link[s].frames
                                     /\ link'[s].received = link[s].received
                                     /\ link'[s].errored = link[s].errored
       /\ sess'[c] # sess[c] => Starts(c) \/ TeardownFinds(c)]_vars

\* C34: a session that handled a message, whose link opened and carried the
\* reply, is inactive after its teardown with the fields it was created with.
C34_Witness ==
  /\ phase[1] = "closed"
  /\ ~sess[1].isActive
  /\ sess[1].hasWs
  /\ sess[1].startTime = now
  /\ sess[1].sessionId = key[1][1]
  /\ tasks[1] # <<>>
  /\ Len(link[1].frames) >= 2

\* C35: in a step taken after cleanupSession called close() on a link, no
\* frame is sent on that link, whatever handler of the session ends in it.
C35_NoFrameAfterClose ==
  [][\A s \in Conns :
       link[s].closeCalls > 0 => link'[s].frames = link[s].frames]_vars

\* C35: teardown closed a link that had opened and had not failed while a
\* message handler of the session was still awaiting its transcription or
\* Router call.
C35_Witness ==
  /\ link[1].closeCalls = 1
  /\ Opened(1) /\ ~link[1].errored
  /\ InFlight(1) # {}

\* A message handler of connection c sends a message to its client in the
\* step.
HandlerSendsTo(c) ==
  /\ Len(clientOut'[c]) = Len(clientOut[c]) + 1
  /\ clientOut'[c][Len(clientOut'[c])].task > 0

\* C36: in a step taken after cleanupSession marked the Session of a
\* connection inactive, no POST is made to the Router for it, no audit record
\* is written for it and no message handler sends to its client.
C36_InactiveSessionSilent ==
  [][\A c \in Conns :
       (phase[c] = "closed" /\ ~sess[c].isActive) =>
         /\ posts'[c] = posts[c]
         /\ webhookLog'[c] = webhookLog[c]
         /\ ~HandlerSendsTo(c)]_vars

\* The frames of link s that message handlers sent (all but the
\* initialization frame).
HandlerFrames(s) == {j \in DOMAIN link[s].frames : link[s].frames[j].task > 0}

\* C37: the frames that the message handlers of a session sent are on its
\* link in the order in which their messages arrived: a frame of an earlier
\* message is never behind a frame of a later one.
C37_FramesInArrivalOrder ==
  \A s \in Conns : \A j, k \in HandlerFrames(s) :
    j < k => link[s].frames[j].task <= link[s].frames[k].task

\* C38: every audit record of a Router call has status success if the POST
\* of the call returned and error if it did not, and a call whose POST
\* returned has not thrown when it is over.
C38_SuccessIffPostReturned ==
  \A c \in Conns : \A i \in DOMAIN tasks[c] :
    /\ \A j \in LogsBy(c, i) :
         (webhookLog[c][j].status = "success") <=> tasks[c][i].postOk
    /\ (RouterOver(c, i) /\ tasks[c][i].postOk) => tasks[c][i].pc = "done"

\* cleanupSession is called in the step, by the close handler of connection
\* c, with a streamSessionId that is not a key of activeSessions.
CleanupOfUnknown(c) ==
  /\ phase[c] = "ready" /\ phase'[c] = "closed"
  /\ key[c] \notin DOMAIN activeSessions

\* C39: a call of cleanupSession with a streamSessionId that is not
\* registered is over at once and changes nothing: both indices, every
\* Session object and every link stay as they are, no quota call is made,
\* and the invocation has no step left to take.
C39_UnknownIdNoOp ==
  [][\A c \in Conns :
       CleanupOfUnknown(c) =>
         /\ activeSessions' = activeSessions
         /\ sessionKeyMap' = sessionKeyMap
         /\ sess' = sess
         /\ link' = link
         /\ quotaLog' = quotaLog
         /\ inv'[c] = [NoInv EXCEPT !.pc = "done"]
         /\ \A d \in Conns \ {c} : inv'[d] = inv[d]]_vars

\* C39: two sessions were registered under one key; the teardown started by
\* the first disconnect found the Session of the second and removed the key,
\* and the close handler of the second then called cleanupSession with it:
\* that call did nothing, so one quota call was made in all and the Session
\* of the first is still marked active with its link not closed.
C39_Witness ==
  /\ key[1] = key[2]
  /\ phase[1] = "closed" /\ inv[1].pc = "done" /\ inv[1].session = 2
  /\ phase[2] = "closed" /\ inv[2] = [NoInv EXCEPT !.pc = "done"]
  /\ activeSessions = EmptyMap
  /\ sess[1].isActive /\ link[1].closeCalls = 0
  /\ Len(quotaLog[1]) + Len(quotaLog[2]) = 1
====
